---- MODULE Spec2Model ----
(***************************************************************************)
(* Model of src/data/crawl_30_pages.py: the text normalizer                *)
(* (extract_number), the listing extractor (parse_listing), the page       *)
(* crawler (crawl_page) and the crawl orchestrator (main).                 *)
(*                                                                         *)
(* Python values are tagged records: None, str (a sequence of characters), *)
(* float (an exact decimal m / 10^d, normalised so that equal values are   *)
(* equal records), int, dict, and a raised exception.                      *)
(***************************************************************************)
EXTENDS Integers, Sequences, FiniteSets, TLC

VARIABLES
    pc,            \* the statement the program is at
    page_num,      \* main: the loop variable
    listings,      \* main: what the last crawl_page call returned
    all_listings,  \* main: the accumulator
    calls,         \* the "Crawling page n" lines printed so far, as the n
    renderer,      \* what the renderer did on the last page visited
    df,            \* main: the DataFrame
    csv,           \* the table written to the output file
    arg,           \* the argument of the function under SpecExtract,
                   \* SpecParse and SpecPage
    ret            \* what that function returned

mainvars == <<page_num, listings, all_listings, calls, renderer, df, csv>>

vars == <<pc, mainvars, arg, ret>>

(***************************************************************************)
(* Bounds of the model.                                                    *)
(***************************************************************************)
\* longest text handed to extract_number in SpecExtract
MaxLen == 4
\* most info-list items of one listing node in SpecParse
MaxInfo == 2
\* most listing nodes of one page in SpecPage
MaxArticles == 3
\* most listing nodes of one page in Spec
MaxPerPage == 2
\* most records the site yields over one whole run in Spec
MaxListings == 1

(***************************************************************************)
(* Python values.                                                          *)
(***************************************************************************)
None == [tag |-> "None"]
Str(s) == [tag |-> "str", s |-> s]
Raised(e) == [tag |-> "raise", exc |-> e]

RECURSIVE Pow10(_)
Pow10(k) == IF k = 0 THEN 1 ELSE 10 * Pow10(k - 1)

\* the decimal m / 10^d with trailing zeros of the fraction dropped
RECURSIVE Float(_, _)
Float(m, d) ==
    IF d > 0 /\ m % 10 = 0 THEN Float(m \div 10, d - 1)
    ELSE [tag |-> "float", m |-> m, d |-> d]

IntV(n) == [tag |-> "int", n |-> n]

\* Python truthiness of a value: `if v`, `not v`, `a and b`
Truthy(v) ==
    CASE v.tag = "None" -> FALSE
      [] v.tag = "str" -> v.s # <<>>
      [] v.tag = "float" -> v.m # 0
      [] v.tag = "int" -> v.n # 0
      [] OTHER -> TRUE

(***************************************************************************)
(* Characters and str methods.  A text is a sequence of one-character      *)
(* strings; "y'" stands for the letter y with hook above of the word for   *)
(* billion, "^2" for the superscript two of the square-metre sign and "*"  *)
(* for the bullet.                                                         *)
(***************************************************************************)
DigitSeq == <<"0", "1", "2", "3", "4", "5", "6", "7", "8", "9">>
Digits == {DigitSeq[i] : i \in 1..Len(DigitSeq)}
DigitVal(c) == (CHOOSE i \in 1..Len(DigitSeq) : DigitSeq[i] = c) - 1
Whitespace == {" "}

\* whether pat occurs in s at position i
MatchAt(s, pat, i) ==
    /\ i + Len(pat) - 1 <= Len(s)
    /\ \A k \in 1..Len(pat) : s[i + k - 1] = pat[k]

\* str.replace(old, new): every non-overlapping occurrence, left to right
RECURSIVE replace(_, _, _)
replace(s, old, new) ==
    IF s = <<>> THEN <<>>
    ELSE IF MatchAt(s, old, 1)
         THEN new \o replace(SubSeq(s, Len(old) + 1, Len(s)), old, new)
         ELSE <<Head(s)>> \o replace(Tail(s), old, new)

\* str.strip(): leading and trailing whitespace removed
RECURSIVE lstrip(_)
lstrip(s) ==
    IF s # <<>> /\ Head(s) \in Whitespace THEN lstrip(Tail(s)) ELSE s

RECURSIVE rstrip(_)
rstrip(s) ==
    IF s # <<>> /\ s[Len(s)] \in Whitespace
    THEN rstrip(SubSeq(s, 1, Len(s) - 1)) ELSE s

strip(s) == lstrip(rstrip(s))

(***************************************************************************)
(* extract_number                                                          *)
(***************************************************************************)
\* the character class [\d.] of the pattern
InClass(c) == c \in Digits \/ c = "."

\* re.search(r'[\d.]+', text).group(): the leftmost longest run of class
\* characters, <<>> when there is no match
re_search(s) ==
    IF \A i \in 1..Len(s) : ~InClass(s[i]) THEN <<>>
    ELSE LET b == CHOOSE i \in 1..Len(s) :
                     InClass(s[i]) /\ \A k \in 1..(i - 1) : ~InClass(s[k])
             e == CHOOSE j \in b..Len(s) :
                     /\ \A k \in b..j : InClass(s[k])
                     /\ (j = Len(s) \/ ~InClass(s[j + 1]))
         IN SubSeq(s, b, e)

\* the digits of a run read as one decimal integer
RECURSIVE DigitsValue(_)
DigitsValue(s) ==
    IF s = <<>> THEN 0
    ELSE IF s[Len(s)] = "." THEN DigitsValue(SubSeq(s, 1, Len(s) - 1))
    ELSE 10 * DigitsValue(SubSeq(s, 1, Len(s) - 1)) + DigitVal(s[Len(s)])

\* float(run) for a run of digits and points: the value when the run has at
\* least one digit and at most one point, ValueError otherwise
float(run) ==
    LET points == {i \in 1..Len(run) : run[i] = "."}
        ndigit == Len(run) - Cardinality(points)
    IN IF Cardinality(points) > 1 \/ ndigit = 0 THEN Raised("ValueError")
       ELSE IF points = {} THEN Float(DigitsValue(run), 0)
       ELSE LET p == CHOOSE i \in points : TRUE
            IN Float(DigitsValue(run), Len(run) - p)

\* float(match.group()) if match else None
float_if_match(run) == IF run = <<>> THEN None ELSE float(run)

extract_number(text) ==
    IF ~Truthy(text) THEN None ELSE float_if_match(re_search(text.s))

(***************************************************************************)
(* SpecExtract: extract_number applied to every text of at most MaxLen     *)
(* characters over ExtractAlphabet, and to None.                           *)
(***************************************************************************)
ExtractAlphabet == {"0", "5", ".", "m"}

RECURSIVE SeqsUpTo(_, _)
SeqsUpTo(S, n) ==
    IF n = 0 THEN {<<>>}
    ELSE LET shorter == SeqsUpTo(S, n - 1)
         IN shorter \cup {Append(s, x) : s \in shorter, x \in S}

\* None and the texts of at most n characters
ExtractInputs(n) == {None} \cup {Str(s) : s \in SeqsUpTo(ExtractAlphabet, n)}

Idle ==
    /\ page_num = 0
    /\ listings = <<>>
    /\ all_listings = <<>>
    /\ calls = <<>>
    /\ renderer = "idle"
    /\ df = None
    /\ csv = None

InitExtract ==
    /\ pc = "extract_number"
    /\ arg \in ExtractInputs(MaxLen)
    /\ ret = None
    /\ Idle

ExtractNumber ==
    /\ pc = "extract_number"
    /\ ret' = extract_number(arg)
    /\ pc' = "returned"
    /\ UNCHANGED <<mainvars, arg>>

NextExtract == ExtractNumber

SpecExtract == InitExtract /\ [][NextExtract]_vars

\* whether a text (None or str) holds no digit character
NoDigit(text) ==
    text = None \/ \A i \in 1..Len(text.s) : text.s[i] \notin Digits

\* whether s[b..e] reads digits, or digits "." digits
IsNumeral(s, b, e) ==
    /\ s[b] \in Digits
    /\ s[e] \in Digits
    /\ \A k \in b..e : InClass(s[k])
    /\ Cardinality({k \in b..e : s[k] = "."}) <= 1

\* whether s[b..e] is the one numeric substring of s: a numeral, every digit
\* of s inside it, and no "." touching it
OnlyNumberAt(s, b, e) ==
    /\ IsNumeral(s, b, e)
    /\ \A k \in 1..Len(s) : s[k] \in Digits => k \in b..e
    /\ b > 1 => s[b - 1] # "."
    /\ e < Len(s) => s[e + 1] # "."

\* C7: for every text without a digit character (None, empty, or holding
\* "." characters) extract_number returns None and does not raise.
C7_NoDigitGivesNone ==
    (pc = "returned" /\ NoDigit(arg)) => ret = None

\* C8: for every text holding exactly one numeric substring, extract_number
\* returns the value of that substring, whatever other characters ("."
\* characters that are no part of the number included) stand around it.
C8_OneNumberIsReturned ==
    (pc = "returned" /\ arg # None) =>
        \A b \in 1..Len(arg.s) : \A e \in b..Len(arg.s) :
            OnlyNumberAt(arg.s, b, e) => ret = float(SubSeq(arg.s, b, e))

(***************************************************************************)
(* parse_listing.  A listing node is a record of what its selectors give:  *)
(*   stale          whether the handle is detached, so that a query raises *)
(*   id_elem        None, or the inner text of the identifier paragraph    *)
(*   title_elem     None, or the title and href attributes of the anchor   *)
(*   price_elem     None, or the inner text of the price link              *)
(*   address_elems  the inner texts of the address anchors                 *)
(*   info_items     the info-list items, each its inner text and its icon: *)
(*                  None, or the class attribute of the <i> element, which *)
(*                  is None or the set of icon markers the string contains *)
(***************************************************************************)
BULLET == <<" ", "*">>
TY == <<"t", "y'">>
VND == <<"V", "N", "D">>
M2 == <<"m", "^2">>

BEDROOMS_ICON == "zmdi-airline-seat-individual-suite"
BATHROOMS_ICON == "icon-bath-room"
AREA_ICON == "zmdi-photo-size-select-small"
DIRECTION_ICON == "zmdi-compass"

\* sep.join(parts) for a non-empty sequence of texts
RECURSIVE join(_, _)
join(sep, parts) ==
    IF Len(parts) = 1 THEN parts[1]
    ELSE parts[1] \o sep \o join(sep, Tail(parts))

\* the stripped texts of the address anchors, the empty ones left out
RECURSIVE address_parts(_)
address_parts(elems) ==
    IF elems = <<>> THEN <<>>
    ELSE LET text == strip(Head(elems))
         IN (IF text # <<>> THEN <<text>> ELSE <<>>)
                \o address_parts(Tail(elems))

\* int(x) of a float that is not negative: the fraction cut off
int(x) == IntV(x.m \div Pow10(x.d))

\* round(a / b, 2) in hundredths, for a >= 0 and b > 0: the nearest
\* hundredth, a tie going to the even one
RoundDiv(a, b) ==
    LET q == a \div b
        r == a % b
    IN IF 2 * r > b \/ (2 * r = b /\ q % 2 = 1) THEN q + 1 ELSE q

\* round((price * 1000) / area, 2)
price_per_m2_of(price, area) ==
    Float(RoundDiv(price.m * 1000 * 100 * Pow10(area.d),
                   area.m * Pow10(price.d)), 2)

\* price_per_m2 with the derived field left out when the price is 0 or None
\* or the area is 0 or None
derived_field(price, area) ==
    IF Truthy(price) /\ Truthy(area) THEN price_per_m2_of(price, area)
    ELSE None

InfoNone ==
    [bedrooms |-> None, bathrooms |-> None, area |-> None, direction |-> None]

\* field = extract_number(...): the fields with the number assigned, or the
\* exception extract_number raised
assign_number(st, field, n) ==
    IF n.tag = "raise" THEN n ELSE [st EXCEPT ![field] = n]

\* assign_number with a bug: None does not overwrite what an earlier item of
\* the category gave
assign_number_unless_none(st, field, n) ==
    IF n.tag = "raise" THEN n
    ELSE IF n = None THEN st
    ELSE [st EXCEPT ![field] = n]

\* info_item with that bug: a category seen again is overwritten only by a
\* value that is not None, so that an earlier number survives a later item
info_item_keeps_value(st, item) ==
    IF item.icon = None THEN st
    ELSE IF item.icon.class = None THEN Raised("TypeError")
    ELSE IF BEDROOMS_ICON \in item.icon.class.markers
    THEN assign_number_unless_none(st, "bedrooms",
                                   extract_number(Str(strip(item.text))))
    ELSE IF BATHROOMS_ICON \in item.icon.class.markers
    THEN assign_number_unless_none(st, "bathrooms",
                                   extract_number(Str(strip(item.text))))
    ELSE IF AREA_ICON \in item.icon.class.markers
    THEN assign_number_unless_none(st, "area",
             extract_number(Str(strip(replace(strip(item.text), M2, <<>>)))))
    ELSE IF DIRECTION_ICON \in item.icon.class.markers
    THEN [st EXCEPT !.direction = Str(strip(strip(item.text)))]
    ELSE st

\* the body of the loop over info_items: the four fields after one item, or
\* the exception it raises; item.icon.class is class_name and
\* strip(item.text) is text
info_item(st, item) ==
    IF item.icon = None THEN st
    ELSE IF item.icon.class = None THEN Raised("TypeError")
    ELSE IF BEDROOMS_ICON \in item.icon.class.markers
    THEN assign_number(st, "bedrooms", extract_number(Str(strip(item.text))))
    ELSE IF BATHROOMS_ICON \in item.icon.class.markers
    THEN assign_number(st, "bathrooms", extract_number(Str(strip(item.text))))
    ELSE IF AREA_ICON \in item.icon.class.markers
    THEN assign_number(st, "area",
             extract_number(Str(strip(replace(strip(item.text), M2, <<>>)))))
    ELSE IF DIRECTION_ICON \in item.icon.class.markers
    THEN [st EXCEPT !.direction = Str(strip(strip(item.text)))]
    ELSE st

\* the loop over info_items from the fields st, stopping at an exception
RECURSIVE info_loop(_, _)
info_rest(next, rest) ==
    IF "tag" \in DOMAIN next THEN next ELSE info_loop(next, rest)

info_loop(st, items) ==
    IF items = <<>> THEN st
    ELSE info_rest(info_item(st, Head(items)), Tail(items))

\* price = extract_number(price_text.replace(...)) if price_text
price_of(price_text) ==
    IF Truthy(price_text)
    THEN extract_number(Str(replace(replace(price_text.s, TY, <<>>),
                                    VND, <<>>)))
    ELSE None

\* address = ' '.join(address_parts) if address_parts else None
address_of(parts) ==
    IF parts # <<>> THEN Str(join(<<" ">>, parts)) ELSE None

\* int(count) if count else None
count_of(count) == IF Truthy(count) THEN int(count) ELSE None

\* the end of the try block: the derived field and the record returned, or
\* the exception raised on the way
record_of(property_id, title_elem, price, address, info) ==
    IF price.tag = "raise" THEN price
    ELSE IF "tag" \in DOMAIN info THEN info
    ELSE [tag |-> "dict",
          ID_tin |-> property_id,
          Tieu_de |-> IF title_elem # None THEN title_elem.title ELSE None,
          Gia_ty |-> price,
          Dien_tich_m2 |-> info.area,
          PN |-> count_of(info.bedrooms),
          WC |-> count_of(info.bathrooms),
          Dia_chi |-> address,
          Huong |-> info.direction,
          Link |-> IF title_elem # None THEN title_elem.href ELSE None,
          Gia_m2_trieu |-> derived_field(price, info.area)]

\* the try block of parse_listing: the record, or the exception raised
parse_listing_try(article) ==
    IF article.stale THEN Raised("Error")
    ELSE record_of(
             IF article.id_elem # None
             THEN Str(replace(strip(article.id_elem.s), BULLET, <<>>))
             ELSE None,
             article.title_elem,
             price_of(IF article.price_elem # None
                      THEN Str(strip(article.price_elem.s)) ELSE None),
             address_of(address_parts(article.address_elems)),
             info_loop(InfoNone, article.info_items))

\* except Exception: return None
none_if_raised(r) == IF r.tag = "raise" THEN None ELSE r

\* parse_listing with a bug: no except clause, the exception leaves the
\* function
parse_listing_no_except(article) == parse_listing_try(article)

\* parse_listing: the record, or None when the try block raised
parse_listing(article) == none_if_raised(parse_listing_try(article))

(***************************************************************************)
(* SpecParse: parse_listing applied to listing nodes built from sample     *)
(* texts and every icon shape, with at most MaxInfo info-list items.       *)
(***************************************************************************)
Icon(markers) == [class |-> [markers |-> markers]]
IconNoClass == [class |-> None]

SampleIcons ==
    {None, IconNoClass, Icon({"zmdi-home"}), Icon({BEDROOMS_ICON}),
     Icon({BATHROOMS_ICON}), Icon({AREA_ICON}), Icon({DIRECTION_ICON})}

\* "50 m2", "0" and a text without a number
SampleInfoTexts == {<<"5", "0", " ", "m", "^2">>, <<"0">>, <<"E">>}

SampleInfoItems ==
    {[text |-> t, icon |-> i] : t \in SampleInfoTexts, i \in SampleIcons}

\* no price link, "5 ty", "0 ty", a text without a number, and "."
SamplePriceElems ==
    {None, Str(<<"5", " ", "t", "y'">>), Str(<<"0", " ", "t", "y'">>),
     Str(<<"t", "y'">>), Str(<<".">>)}

\* a node with identifier, title anchor and two address anchors, one of them
\* blank; and a node with none of them
FullFrame ==
    [id_elem |-> Str(<<"7", " ", "*">>),
     title_elem |-> [title |-> Str(<<"T">>), href |-> Str(<<"/", "7">>)],
     address_elems |-> <<<<"Q", "1">>, <<" ">>, <<"H">>>>]
BareFrame ==
    [id_elem |-> None, title_elem |-> None, address_elems |-> <<>>]
SampleFrames == {FullFrame, BareFrame}

Article(frame, price_elem, info_items) ==
    [stale |-> FALSE,
     id_elem |-> frame.id_elem,
     title_elem |-> frame.title_elem,
     price_elem |-> price_elem,
     address_elems |-> frame.address_elems,
     info_items |-> info_items]

StaleArticle == [Article(BareFrame, None, <<>>) EXCEPT !.stale = TRUE]

\* the sample nodes with at most n info-list items, and a stale one
ParseInputs(n) ==
    {StaleArticle} \cup
    {Article(f, p, items) : f \in SampleFrames, p \in SamplePriceElems,
                            items \in SeqsUpTo(SampleInfoItems, n)}

InitParse ==
    /\ pc = "parse_listing"
    /\ arg \in ParseInputs(MaxInfo)
    /\ ret = None
    /\ Idle

ParseListing ==
    /\ pc = "parse_listing"
    /\ ret' = parse_listing(arg)
    /\ pc' = "returned"
    /\ UNCHANGED <<mainvars, arg>>

NextParse == ParseListing

SpecParse == InitParse /\ [][NextParse]_vars

\* C4: in every record parse_listing returns, the price per square metre is
\* present exactly when price and area are both present and the area is not
\* zero (so also when the price is present with value 0).
C4_DerivedFieldIff ==
    (pc = "returned" /\ ret # None) =>
        (ret.Gia_m2_trieu # None <=>
            /\ ret.Gia_ty # None
            /\ ret.Dien_tich_m2 # None
            /\ ret.Dien_tich_m2.m # 0)

KnownIcons == {BEDROOMS_ICON, BATHROOMS_ICON, AREA_ICON, DIRECTION_ICON}

\* an item with an icon element that matches none of the four categories
Unrecognised(item) ==
    /\ item.icon # None
    /\ \/ item.icon.class = None
       \/ item.icon.class.markers \cap KnownIcons = {}

RemoveAt(s, i) == SubSeq(s, 1, i - 1) \o SubSeq(s, i + 1, Len(s))

InfoFields(record) ==
    <<record.PN, record.WC, record.Dien_tich_m2, record.Huong>>

\* C9: an info-list item whose icon matches no known category (no known
\* marker in its class attribute, or no class attribute at all) leaves the
\* four info fields as they were before it, and the listing still yields a
\* record: the node parses as it does with that item taken out.
C9_UnknownIconIgnored ==
    pc = "returned" =>
        \A i \in 1..Len(arg.info_items) :
            LET rest == parse_listing(
                            [arg EXCEPT !.info_items = RemoveAt(@, i)])
                before == info_loop(InfoNone, SubSeq(arg.info_items, 1, i - 1))
            IN (Unrecognised(arg.info_items[i]) /\ rest # None) =>
                   /\ ret # None
                   /\ InfoFields(ret) = InfoFields(rest)
                   /\ info_item(before, arg.info_items[i]) = before

\* the category the elif chain files an item under
Category(item) ==
    IF item.icon = None \/ item.icon.class = None THEN "none"
    ELSE IF BEDROOMS_ICON \in item.icon.class.markers THEN "bedrooms"
    ELSE IF BATHROOMS_ICON \in item.icon.class.markers THEN "bathrooms"
    ELSE IF AREA_ICON \in item.icon.class.markers THEN "area"
    ELSE IF DIRECTION_ICON \in item.icon.class.markers THEN "direction"
    ELSE "none"

ItemsOf(items, cat) == {i \in 1..Len(items) : Category(items[i]) = cat}

LastOf(items, cat) ==
    CHOOSE i \in ItemsOf(items, cat) : \A j \in ItemsOf(items, cat) : j <= i

\* the normalised number of one item's text, the unit suffix taken off first
\* for an area item
NumberOf(item, cat) ==
    IF cat = "area"
    THEN extract_number(Str(strip(replace(strip(item.text), M2, <<>>))))
    ELSE extract_number(Str(strip(item.text)))

CountOf(item, cat) ==
    LET n == NumberOf(item, cat) IN IF Truthy(n) THEN int(n) ELSE None

\* C10: when several info-list items match one category, the record's field
\* for it is decided by the last such item alone: its normalised value, also
\* when that is None and an earlier item gave a number.
C10_LastSeenWins ==
    (pc = "returned" /\ ret # None) =>
        LET items == arg.info_items
        IN /\ ItemsOf(items, "area") # {} =>
                  ret.Dien_tich_m2 = NumberOf(items[LastOf(items, "area")], "area")
           /\ ItemsOf(items, "bedrooms") # {} =>
                  ret.PN = CountOf(items[LastOf(items, "bedrooms")], "bedrooms")
           /\ ItemsOf(items, "bathrooms") # {} =>
                  ret.WC = CountOf(items[LastOf(items, "bathrooms")], "bathrooms")
           /\ ItemsOf(items, "direction") # {} =>
                  ret.Huong = Str(strip(items[LastOf(items, "direction")].text))

\* a record from a node with two area items, the first with a number and the
\* second without: the area is None
C10_Witness ==
    /\ pc = "returned"
    /\ ret # None
    /\ Len(arg.info_items) = 2
    /\ Category(arg.info_items[1]) = "area"
    /\ Category(arg.info_items[2]) = "area"
    /\ NumberOf(arg.info_items[1], "area") # None
    /\ NumberOf(arg.info_items[2], "area") = None
    /\ ret.Dien_tich_m2 = None

(***************************************************************************)
(* crawl_page.  What the renderer does on one page is a record:            *)
(*   goto      "ok", or "raise" when page.goto raises (network error,      *)
(*             timeout)                                                    *)
(*   wait      "ok", or "raise" when wait_for_selector times out           *)
(*   articles  the listing nodes query_selector_all gives, in document     *)
(*             order                                                       *)
(***************************************************************************)
List(items) == [tag |-> "list", items |-> items]

\* the loop over articles appending to listings, an exception leaving it
RECURSIVE listing_loop(_, _)
listing_rest(acc, listing_data, rest) ==
    IF listing_data.tag = "raise" THEN listing_data
    ELSE IF Truthy(listing_data)
         THEN listing_loop(Append(acc, listing_data), rest)
         ELSE listing_loop(acc, rest)

listing_loop(acc, articles) ==
    IF articles = <<>> THEN List(acc)
    ELSE listing_rest(acc, parse_listing(Head(articles)), Tail(articles))

\* the try block of crawl_page: the list of records, or the exception raised
crawl_page_try(response) ==
    IF response.goto = "raise" THEN Raised("Error")
    ELSE IF response.wait = "raise" THEN Raised("TimeoutError")
    ELSE listing_loop(<<>>, response.articles)

\* except Exception: return []
empty_if_raised(r) == IF r.tag = "raise" THEN List(<<>>) ELSE r

\* crawl_page with a bug: no except clause, the exception leaves the function
crawl_page_no_except(response) == crawl_page_try(response)

\* crawl_page: the list of records, the empty list when the try block raised
crawl_page(response) == empty_if_raised(crawl_page_try(response))

GotoRaises == [goto |-> "raise", wait |-> "ok", articles |-> <<>>]
WaitRaises == [goto |-> "ok", wait |-> "raise", articles |-> <<>>]
Loaded(articles) == [goto |-> "ok", wait |-> "ok", articles |-> articles]

\* what the renderer did, for the variable renderer
RendererDid(response) ==
    IF response.goto = "raise" THEN "goto_raised"
    ELSE IF response.wait = "raise" THEN "wait_raised"
    ELSE "loaded"

(***************************************************************************)
(* SpecPage: crawl_page applied to every page of at most MaxArticles       *)
(* listing nodes drawn from four samples, two that parse and two that      *)
(* raise in parse_listing, and to the two renderer failures.               *)
(***************************************************************************)
AreaItem == [text |-> <<"5", "0", " ", "m", "^2">>, icon |-> Icon({AREA_ICON})]
NoClassItem == [text |-> <<"0">>, icon |-> IconNoClass]

GoodFull == Article(FullFrame, Str(<<"5", " ", "t", "y'">>), <<AreaItem>>)
GoodBare == Article(BareFrame, None, <<>>)
BadIcon == Article(FullFrame, Str(<<"5", " ", "t", "y'">>), <<NoClassItem>>)
BadPrice == Article(BareFrame, Str(<<".">>), <<>>)
SampleArticles == {GoodFull, GoodBare, BadIcon, BadPrice}

\* the pages of at most n sample nodes, and the two renderer failures
PageInputs(n) ==
    {GotoRaises, WaitRaises} \cup
    {Loaded(a) : a \in SeqsUpTo(SampleArticles, n)}

InitPage ==
    /\ pc = "crawl_page"
    /\ arg \in PageInputs(MaxArticles)
    /\ ret = None
    /\ Idle

CrawlPage ==
    /\ pc = "crawl_page"
    /\ ret' = crawl_page(arg)
    /\ pc' = "returned"
    /\ UNCHANGED <<mainvars, arg>>

NextPage == CrawlPage

SpecPage == InitPage /\ [][NextPage]_vars

\* the positions of the listing nodes whose extraction does not raise
Survivors(articles) ==
    {i \in 1..Len(articles) : parse_listing_try(articles[i]).tag # "raise"}

\* the k-th smallest member of a set of positions
Nth(S, k) == CHOOSE i \in S : Cardinality({j \in S : j <= i}) = k

\* C3: an extraction failure is listing-scoped: when parsing a listing node
\* raises, that listing alone is dropped; every other node of the page
\* yields its record and the records stand in document order.
C3_FailureIsListingScoped ==
    (pc = "returned" /\ arg.goto = "ok" /\ arg.wait = "ok") =>
        LET alive == Survivors(arg.articles)
        IN /\ ret.tag = "list"
           /\ Len(ret.items) = Cardinality(alive)
           /\ \A k \in 1..Len(ret.items) :
                  ret.items[k] = parse_listing_try(arg.articles[Nth(alive, k)])

\* a page with a node that raises between two that parse to different
\* records: both records are returned, in document order
C3_Witness ==
    /\ pc = "returned"
    /\ arg.goto = "ok"
    /\ arg.wait = "ok"
    /\ Len(arg.articles) = 3
    /\ Survivors(arg.articles) = {1, 3}
    /\ Len(ret.items) = 2
    /\ ret.items[1] # ret.items[2]
    /\ ret.items[1] = parse_listing_try(arg.articles[1])

(***************************************************************************)
(* main.  The site is modelled by what it serves: the listing at position  *)
(* i of page p carries the identifier "pp-i", and either parses or raises  *)
(* in parse_listing; a page holds at most MaxPerPage listing nodes and the *)
(* whole site at most MaxListings nodes that parse.  Launching and closing *)
(* the browser and the progress output are left out.                       *)
(***************************************************************************)
FirstPage == 1
StopPage == 31

IdText(p, i) ==
    <<DigitSeq[(p \div 10) + 1], DigitSeq[(p % 10) + 1], "-",
      DigitSeq[i + 1], " ", "*">>

\* the listing node at position i of page p: with the identifier alone, or
\* with an icon without class attribute, on which parse_listing raises
SiteArticle(p, i, parses) ==
    [Article(BareFrame, None, IF parses THEN <<>> ELSE <<NoClassItem>>)
         EXCEPT !.id_elem = Str(IdText(p, i))]

\* the pages of at most n nodes the site may serve, by which nodes parse
SitePages(n) == SeqsUpTo(BOOLEAN, n)
SitePage(p, k) == Loaded([i \in 1..Len(k) |-> SiteArticle(p, i, k[i])])
Parsing(k) == Cardinality({i \in 1..Len(k) : k[i]})

\* the keys of the record parse_listing returns, in the order of the dict
RecordColumns ==
    <<"ID_tin", "Tieu_de", "Gia_ty", "Dien_tich_m2", "PN", "WC", "Dia_chi",
      "Huong", "Link", "Gia_m2_trieu">>

column_order == <<"STT">> \o RecordColumns

Range(f) == {f[i] : i \in DOMAIN f}

\* pd.DataFrame(records): the columns are the keys of the records, and a
\* frame built from no record has no column
DataFrame(records) ==
    LET columns == IF records = <<>> THEN <<>> ELSE RecordColumns
    IN [tag |-> "DataFrame",
        columns |-> columns,
        rows |-> [i \in 1..Len(records) |->
                     [c \in Range(columns) |-> records[i][c]]]]

\* df.insert(0, column, range(1, len(df) + 1))
insert_range(frame, column) ==
    [frame EXCEPT !.columns = <<column>> \o @,
                  !.rows = [i \in 1..Len(@) |-> (column :> IntV(i)) @@ @[i]]]

\* df[columns]: KeyError when a column asked for is not in the frame
getitem(frame, columns) ==
    IF \E c \in Range(columns) : c \notin Range(frame.columns)
    THEN Raised("KeyError")
    ELSE [frame EXCEPT !.columns = columns,
                       !.rows = [i \in 1..Len(@) |->
                                    [c \in Range(columns) |-> @[i][c]]]]

Init ==
    /\ pc = "crawl"
    /\ page_num = FirstPage
    /\ listings = <<>>
    /\ all_listings = <<>>
    /\ calls = <<>>
    /\ renderer = "idle"
    /\ df = None
    /\ csv = None
    /\ arg = None
    /\ ret = None

\* the loop with a bug: it stops at the first page without a listing
CrawlOnePage_stops_when_empty(response) ==
    \E r \in {crawl_page(response)} :
       /\ pc = "crawl"
       /\ calls' = Append(calls, page_num)
       /\ renderer' = RendererDid(response)
       /\ IF r.tag = "raise"
          THEN /\ pc' = "raised"
               /\ UNCHANGED <<page_num, listings, all_listings>>
          ELSE /\ listings' = r.items
               /\ all_listings' = all_listings \o r.items
               /\ IF page_num + 1 < StopPage /\ r.items # <<>>
                  THEN page_num' = page_num + 1 /\ pc' = "crawl"
                  ELSE page_num' = page_num /\ pc' = "create_df"
       /\ UNCHANGED <<df, csv, arg, ret>>

\* one pass of the loop over range(1, 31): crawl_page(page, page_num) and
\* all_listings.extend(listings); an exception out of crawl_page would end
\* the program
CrawlOnePage(response) ==
    \E r \in {crawl_page(response)} :
       /\ pc = "crawl"
       /\ calls' = Append(calls, page_num)
       /\ renderer' = RendererDid(response)
       /\ IF r.tag = "raise"
          THEN /\ pc' = "raised"
               /\ UNCHANGED <<page_num, listings, all_listings>>
          ELSE /\ listings' = r.items
               /\ all_listings' = all_listings \o r.items
               /\ IF page_num + 1 < StopPage
                  THEN page_num' = page_num + 1 /\ pc' = "crawl"
                  ELSE page_num' = page_num /\ pc' = "create_df"
       /\ UNCHANGED <<df, csv, arg, ret>>

\* df = pd.DataFrame(all_listings); df.insert(0, 'STT', ...)
CreateDataFrame ==
    /\ pc = "create_df"
    /\ df' = insert_range(DataFrame(all_listings), "STT")
    /\ pc' = "reorder"
    /\ UNCHANGED <<page_num, listings, all_listings, calls, renderer, csv,
                   arg, ret>>

\* df = df[column_order]; a KeyError ends the program
ReorderColumns ==
    /\ pc = "reorder"
    /\ LET r == getitem(df, column_order)
       IN IF r.tag = "raise"
          THEN pc' = "raised" /\ df' = df
          ELSE pc' = "to_csv" /\ df' = r
    /\ UNCHANGED <<page_num, listings, all_listings, calls, renderer, csv,
                   arg, ret>>

\* df.to_csv(filename, index=False, ...); the summary printed after it
SaveCsv ==
    /\ pc = "to_csv"
    /\ csv' = df
    /\ pc' = "done"
    /\ UNCHANGED <<page_num, listings, all_listings, calls, renderer, df,
                   arg, ret>>

Next ==
    \/ CrawlOnePage(GotoRaises)
    \/ CrawlOnePage(WaitRaises)
    \/ \E k \in SitePages(MaxPerPage) :
           /\ Parsing(k) <= MaxListings - Len(all_listings)
           /\ CrawlOnePage(SitePage(page_num, k))
    \/ CreateDataFrame
    \/ ReorderColumns
    \/ SaveCsv

Spec == Init /\ [][Next]_vars

\* the program is one thread of blocking calls, each bounded by a timeout
\* or a fixed sleep: a statement that can run does run
FairSpec == Spec /\ WF_vars(Next)

\* the page and the position a row's identifier "pp-i" names
PageOf(row) == 10 * DigitVal(row.ID_tin.s[1]) + DigitVal(row.ID_tin.s[2])
PosOf(row) == DigitVal(row.ID_tin.s[4])

\* a table of one row per accumulated record, numbered 1..N, ordered by page
\* and, within a page, by position
TableOf(table, records) ==
    /\ Len(table.rows) = Len(records)
    /\ table.columns = column_order
    /\ \A k \in 1..Len(table.rows) :
           /\ table.rows[k].STT = IntV(k)
           /\ table.rows[k].ID_tin = records[k].ID_tin
    /\ \A k, l \in 1..Len(table.rows) :
           k < l => \/ PageOf(table.rows[k]) < PageOf(table.rows[l])
                    \/ /\ PageOf(table.rows[k]) = PageOf(table.rows[l])
                       /\ PosOf(table.rows[k]) < PosOf(table.rows[l])

\* C1: whatever the pages gave (records, nothing, a failure), the run ends
\* with a table exported that has one row per record crawl_page returned,
\* row i numbered i, ordered by page and within a page by document order.
C1_ExportedTable ==
    pc \in {"done", "raised"} => (csv # None /\ TableOf(csv, all_listings))

\* the same of the runs that collected a record
ExportOfNonEmptyRun ==
    (pc \in {"done", "raised"} /\ all_listings # <<>>) =>
        (pc = "done" /\ csv # None /\ TableOf(csv, all_listings))

\* C2: crawl_page never lets an error out: when the navigation raises or the
\* wait for a listing container times out it returns an empty list, the
\* records of earlier pages stay as they are, and main goes on to the next
\* page index (to the export after the last one).
C2_PageFailureIsAbsorbed ==
    [][(pc = "crawl" /\ renderer' \in {"goto_raised", "wait_raised"}) =>
           /\ listings' = <<>>
           /\ all_listings' = all_listings
           /\ calls' = Append(calls, page_num)
           /\ IF page_num + 1 < StopPage
              THEN pc' = "crawl" /\ page_num' = page_num + 1
              ELSE pc' = "create_df"]_vars

\* after a page with a record, a later page timed out and main stands at the
\* page after it with the record kept
C2_Witness ==
    /\ pc = "crawl"
    /\ renderer = "wait_raised"
    /\ listings = <<>>
    /\ Len(all_listings) = 1
    /\ page_num = Len(calls) + 1
    /\ page_num > PageOf(all_listings[1]) + 1

\* C5: a run in which every page gave no listing still completes: the export
\* after the loop reaches its end without raising.
C5_EmptyRunCompletes ==
    (pc # "crawl" /\ all_listings = <<>>) => pc # "raised"

\* the calls so far are FirstPage, FirstPage + 1, ... without a gap; inside
\* the loop the next page is in range and the pass can be taken; the loop
\* is left only after the call for the last page
EachPageOnce ==
    /\ calls = [i \in 1..Len(calls) |-> FirstPage + i - 1]
    /\ pc = "crawl" =>
           /\ page_num = FirstPage + Len(calls)
           /\ page_num < StopPage
           /\ ENABLED Next
    /\ pc # "crawl" => Len(calls) = StopPage - FirstPage

\* every pass of the loop makes one call, for page_num, and moves to the
\* next index, or out of the loop after the last one
LoopAdvances ==
    pc = "crawl" =>
        /\ calls' = Append(calls, page_num)
        /\ IF page_num + 1 < StopPage
           THEN pc' = "crawl" /\ page_num' = page_num + 1
           ELSE pc' = "create_df"

\* C6: main calls crawl_page once for each page index 1..30, in ascending
\* order, whatever earlier pages gave: no page is skipped, retried or
\* revisited, the loop does not stop at an empty page, and it ends after
\* page 30 (each pass can be taken and takes the index one step towards 31).
C6_EveryPageOnceInOrder == []EachPageOnce /\ [][LoopAdvances]_vars

\* under fairness the loop is left
LoopEnds == <>(pc # "crawl")

\* the loop has ended after the call for the last page, with a record from an earlier page and
\* the last page failed
C6_Witness ==
    /\ pc = "create_df"
    /\ Len(calls) = StopPage - FirstPage
    /\ calls[Len(calls)] = StopPage - 1
    /\ all_listings # <<>>
    /\ renderer = "goto_raised"

====
